---- MODULE Spec2Model ----
(***************************************************************************)
(* Model of custom_components/polestar_api/sensor.py: the static table of  *)
(* sensor descriptors, the PolestarSensor entity (its stored raw value     *)
(* _attr_native_value, the state and native_value accessors, async_update) *)
(* and the part of the Polestar device object the entity talks to.         *)
(*                                                                         *)
(* Python values are records [t, n, s]:                                    *)
(*   t = "none"            None                                            *)
(*   t = "bool"            n = 0 (False) or 1 (True)                       *)
(*   t = "int"             n = the integer                                 *)
(*   t = "float"           n = the value in thousandths (1.234 is 1234)    *)
(*   t = "str"             s = the characters; a label or an identifier    *)
(*                         that no rule takes apart is one element of s    *)
(*   t = "datetime"        n = seconds on the model's clock                *)
(*   t = "raise"           s = the exception the accessor ended with       *)
(***************************************************************************)
EXTENDS Integers, Sequences, FiniteSets, TLC

\* ------------------------------------------------------------------------
\* Python values

PyNone == [t |-> "none", n |-> 0, s |-> <<>>]
PyFalse == [t |-> "bool", n |-> 0, s |-> <<>>]
PyTrue == [t |-> "bool", n |-> 1, s |-> <<>>]
PyInt(i) == [t |-> "int", n |-> i, s |-> <<>>]
PyFloat(thousandths) == [t |-> "float", n |-> thousandths, s |-> <<>>]
PyStr(chars) == [t |-> "str", n |-> 0, s |-> chars]
PyDatetime(seconds) == [t |-> "datetime", n |-> seconds, s |-> <<>>]
Raise(exc) == [t |-> "raise", n |-> 0, s |-> <<exc>>]

IsNumber(v) == v.t \in {"bool", "int", "float"}

\* isinstance(v, int): bool is a subclass of int
IsInstanceInt(v) == v.t \in {"bool", "int"}

\* the numeric value of a number, in thousandths
Milli(v) == IF v.t = "float" THEN v.n ELSE v.n * 1000

\* v == i for an integer literal i (None and strings equal no number)
PyEqInt(v, i) == IsNumber(v) /\ Milli(v) = i * 1000

\* truncation toward zero of a value given in thousandths
Trunc(m) == IF m >= 0 THEN m \div 1000 ELSE -((-m) \div 1000)

\* the integer nearest to num/den (den > 0), ties to the even neighbour:
\* Python's round() on an exactly represented quotient
RoundHalfEven(num, den) ==
    LET q == num \div den
        r == num % den
    IN  IF 2 * r < den THEN q
        ELSE IF 2 * r > den THEN q + 1
        ELSE IF q % 2 = 0 THEN q ELSE q + 1

Digits == {"0", "1", "2", "3", "4", "5", "6", "7", "8", "9"}

DigitValue(c) ==
    CASE c = "0" -> 0 [] c = "1" -> 1 [] c = "2" -> 2 [] c = "3" -> 3
      [] c = "4" -> 4 [] c = "5" -> 5 [] c = "6" -> 6 [] c = "7" -> 7
      [] c = "8" -> 8 [] c = "9" -> 9

RECURSIVE DigitsValue(_)
DigitsValue(chars) ==
    IF chars = <<>> THEN 0
    ELSE DigitsValue(SubSeq(chars, 1, Len(chars) - 1)) * 10
         + DigitValue(chars[Len(chars)])

AllDigits(chars) == chars # <<>> /\ \A i \in 1..Len(chars) : chars[i] \in Digits

\* str.replace(".0", ""): every non-overlapping occurrence, left to right
RECURSIVE ReplaceDotZero(_)
ReplaceDotZero(chars) ==
    IF Len(chars) < 2 THEN chars
    ELSE IF chars[1] = "." /\ chars[2] = "0"
         THEN ReplaceDotZero(SubSeq(chars, 3, Len(chars)))
         ELSE <<chars[1]>> \o ReplaceDotZero(Tail(chars))

\* int(v): [ok, n]; not ok is the ValueError/TypeError int() raises
IntOfStr(chars) ==
    IF AllDigits(chars) THEN [ok |-> TRUE, n |-> DigitsValue(chars)]
    ELSE IF Len(chars) > 1 /\ chars[1] = "-" /\ AllDigits(Tail(chars))
         THEN [ok |-> TRUE, n |-> -DigitsValue(Tail(chars))]
    ELSE IF Len(chars) > 1 /\ chars[1] = "+" /\ AllDigits(Tail(chars))
         THEN [ok |-> TRUE, n |-> DigitsValue(Tail(chars))]
    ELSE [ok |-> FALSE, n |-> 0]

PyIntOf(v) ==
    CASE v.t \in {"bool", "int"} -> [ok |-> TRUE, n |-> v.n]
      [] v.t = "float" -> [ok |-> TRUE, n |-> Trunc(v.n)]
      [] v.t = "str" -> IntOfStr(v.s)
      [] OTHER -> [ok |-> FALSE, n |-> 0]

\* float(v) in thousandths: [ok, m]; a string is digits, or digits "." and
\* one to three digits
FloatOfStr(chars) ==
    LET dots == {i \in 1..Len(chars) : chars[i] = "."}
    IN  IF IntOfStr(chars).ok THEN [ok |-> TRUE, m |-> IntOfStr(chars).n * 1000]
        ELSE IF Cardinality(dots) = 1
             THEN LET d == CHOOSE i \in dots : TRUE
                      whole == SubSeq(chars, 1, d - 1)
                      frac == SubSeq(chars, d + 1, Len(chars))
                      pad == frac \o SubSeq(<<"0", "0", "0">>, 1, 3 - Len(frac))
                  IN  IF AllDigits(whole) /\ AllDigits(frac) /\ Len(frac) <= 3
                      THEN [ok |-> TRUE,
                            m |-> DigitsValue(whole) * 1000 + DigitsValue(pad)]
                      ELSE [ok |-> FALSE, m |-> 0]
        ELSE [ok |-> FALSE, m |-> 0]

PyFloatOf(v) ==
    CASE IsNumber(v) -> [ok |-> TRUE, m |-> Milli(v)]
      [] v.t = "str" -> FloatOfStr(v.s)
      [] OTHER -> [ok |-> FALSE, m |-> 0]

\* 10 ** e for e in 0..3
Pow10(e) == CASE e = 0 -> 1 [] e = 1 -> 10 [] e = 2 -> 100 [] e = 3 -> 1000

\* round(x, digits) of a float x in thousandths, digits in 0..3
RoundMilli(m, digits) ==
    LET unit == Pow10(3 - digits) IN RoundHalfEven(m, unit) * unit

\* round(v, digits) as Python evaluates it: an int (or bool) rounds to an
\* int, a float to a float, anything else raises TypeError
PyRound(v, digits) ==
    CASE v.t \in {"bool", "int"} -> PyInt(v.n)
      [] v.t = "float" -> PyFloat(RoundMilli(v.n, digits))
      [] OTHER -> Raise("TypeError")

\* a == b for two Python values (1 == 1.0 == True; None equals only None)
PyEq(a, b) ==
    \/ IsNumber(a) /\ IsNumber(b) /\ Milli(a) = Milli(b)
    \/ a.t = "str" /\ b.t = "str" /\ a.s = b.s
    \/ a.t = "none" /\ b.t = "none"

\* ------------------------------------------------------------------------
\* The descriptor table

\* a PolestarSensorDescription; an Optional[int] is the empty set (None) or
\* the set of the one number, dict_data is the name of a dictionary or "None"
Description(key, query, field_name, round_digits, max_value, dict_data) ==
    [key |-> key, query |-> query, field_name |-> field_name,
     round_digits |-> round_digits, max_value |-> max_value,
     dict_data |-> dict_data]

\* a dictionary is the set of its <<key, label>> items
CHARGING_CONNECTION_STATUS_DICT ==
    {<<PyStr(<<"CHARGER_CONNECTION_STATUS_CONNECTED">>), "Connected">>,
     <<PyStr(<<"CHARGER_CONNECTION_STATUS_DISCONNECTED">>), "Disconnected">>,
     <<PyStr(<<"CHARGER_CONNECTION_STATUS_FAULT">>), "Fault">>,
     <<PyStr(<<"CHARGER_CONNECTION_STATUS_UNSPECIFIED">>), "Unspecified">>}

CHARGING_STATUS_DICT ==
    {<<PyStr(<<"CHARGING_STATUS_DONE">>), "Done">>,
     <<PyStr(<<"CHARGING_STATUS_IDLE">>), "Idle">>,
     <<PyStr(<<"CHARGING_STATUS_CHARGING">>), "Charging">>,
     <<PyStr(<<"CHARGING_STATUS_FAULT">>), "Fault">>,
     <<PyStr(<<"CHARGING_STATUS_UNSPECIFIED">>), "Unspecified">>,
     <<PyStr(<<"CHARGING_STATUS_SCHEDULED">>), "Scheduled">>,
     <<PyStr(<<"CHARGING_STATUS_DISCHARGING">>), "Discharging">>,
     <<PyStr(<<"CHARGING_STATUS_ERROR">>), "Error">>,
     <<PyStr(<<"CHARGING_STATUS_SMART_CHARGING">>), "Smart Charging">>}

API_STATUS_DICT ==
    {<<PyInt(200), "OK">>,
     <<PyInt(303), "OK">>,
     <<PyInt(401), "Unauthorized">>,
     <<PyInt(404), "API Down">>,
     <<PyInt(500), "Internal Server Error">>}

DictData(name) ==
    CASE name = "CHARGING_CONNECTION_STATUS_DICT" -> CHARGING_CONNECTION_STATUS_DICT
      [] name = "CHARGING_STATUS_DICT" -> CHARGING_STATUS_DICT
      [] name = "API_STATUS_DICT" -> API_STATUS_DICT

\* dict.get(v, default)
DictGet(dict, v, default) ==
    IF \E item \in dict : PyEq(item[1], v)
    THEN PyStr(<<(CHOOSE item \in dict : PyEq(item[1], v))[2]>>)
    ELSE default

POLESTAR_SENSOR_TYPES == <<
    Description("estimate_distance_to_empty_miles", "getBatteryData", "estimatedDistanceToEmptyMiles",
                {}, {410}, "None"),
    Description("estimate_distance_to_empty_km", "getBatteryData", "estimatedDistanceToEmptyKm",
                {}, {660}, "None"),
    Description("current_odometer_meters", "getOdometerData", "odometerMeters",
                {0}, {}, "None"),
    Description("average_speed_km_per_hour", "getOdometerData", "averageSpeedKmPerHour",
                {}, {150}, "None"),
    Description("current_trip_meter_automatic", "getOdometerData", "tripMeterAutomaticKm",
                {}, {}, "None"),
    Description("current_trip_meter_manual", "getOdometerData", "tripMeterManualKm",
                {}, {}, "None"),
    Description("battery_charge_level", "getBatteryData", "batteryChargeLevelPercentage",
                {0}, {100}, "None"),
    Description("estimated_charging_time_to_full_minutes", "getBatteryData", "estimatedChargingTimeToFullMinutes",
                {}, {1500}, "None"),
    Description("charging_status", "getBatteryData", "chargingStatus",
                {}, {}, "CHARGING_STATUS_DICT"),
    Description("charging_power_watts", "getBatteryData", "chargingPowerWatts",
                {}, {}, "None"),
    Description("charging_current_amps", "getBatteryData", "chargingCurrentAmps",
                {}, {}, "None"),
    Description("charger_connection_status", "getBatteryData", "chargerConnectionStatus",
                {}, {}, "CHARGING_CONNECTION_STATUS_DICT"),
    Description("average_energy_consumption_kwh_per_100_km", "getBatteryData", "averageEnergyConsumptionKwhPer100Km",
                {}, {}, "None"),
    Description("estimated_charging_time_minutes_to_target_distance", "getBatteryData", "estimatedChargingTimeMinutesToTargetDistance",
                {}, {}, "None"),
    Description("vin", "getConsumerCarsV2", "vin",
                {}, {}, "None"),
    Description("registration_number", "getConsumerCarsV2", "registrationNo",
                {}, {}, "None"),
    Description("estimated_fully_charged_time", "getBatteryData", "estimatedChargingTimeToFullMinutes",
                {}, {}, "None"),
    Description("model_name", "getConsumerCarsV2", "content/model/name",
                {}, {}, "None"),
    Description("last_updated_odometer_data", "getOdometerData", "eventUpdatedTimestamp/iso",
                {}, {}, "None"),
    Description("last_updated_battery_data", "getBatteryData", "eventUpdatedTimestamp/iso",
                {}, {}, "None"),
    Description("estimate_full_charge_range_miles", "getBatteryData", "estimatedDistanceToEmptyMiles",
                {}, {410}, "None"),
    Description("estimate_full_charge_range", "getBatteryData", "estimatedDistanceToEmptyKm",
                {}, {660}, "None"),
    Description("api_status_code", "None", "None",
                {}, {}, "API_STATUS_DICT"),
    Description("api_token_expires_at", "None", "None",
                {}, {}, "None")
>>

Keys == {POLESTAR_SENSOR_TYPES[i].key : i \in DOMAIN POLESTAR_SENSOR_TYPES}

\* the descriptor an entity created for key k holds
entity_description(k) ==
    POLESTAR_SENSOR_TYPES[CHOOSE i \in DOMAIN POLESTAR_SENSOR_TYPES :
                              POLESTAR_SENSOR_TYPES[i].key = k]

\* ------------------------------------------------------------------------
\* The device object: the calls the entity makes on it

\* the (query, field) slots of the device's raw cache the descriptors read
Slot(d) == <<d.query, d.field_name>>

Slots == {Slot(POLESTAR_SENSOR_TYPES[i]) : i \in DOMAIN POLESTAR_SENSOR_TYPES}
         \cup {<<"getBatteryData", "batteryChargeLevelPercentage">>}

\* device.get_latest_data(query, field) on a raw cache
get_latest_data(data, query, field) == data[<<query, field>>]

\* device.get_value(query, field, skip_cache) on a raw cache
get_value(data, query, field) == data[<<query, field>>]

\* ------------------------------------------------------------------------
\* PolestarSensor.state, rule by rule.  A rule that can end the accessor
\* yields [done, out, val]: done says the accessor returned (or raised) out,
\* val is _attr_native_value as the rule leaves it.

Returned(out, val) == [done |-> TRUE, out |-> out, val |-> val]
Continue(val) == [done |-> FALSE, out |-> PyNone, val |-> val]

\* the dictionary rule without the api_status_code exception: every key looks
\* its stored value up
LabelRuleStoredValueOnly(d, raw, code) ==
    DictGet(DictData(d.dict_data), raw, raw)

\* the dictionary rule
LabelRule(d, raw, code) ==
    IF d.key = "api_status_code"
    THEN DictGet(DictData(d.dict_data), code, PyStr(<<"Error">>))
    ELSE DictGet(DictData(d.dict_data), raw, raw)

\* the token expiry rule; strftime keeps the whole seconds of the expiry
TokenRule(expiry) ==
    IF expiry.t = "none" THEN PyNone
    ELSE [t |-> "str", n |-> expiry.n, s |-> <<"%Y-%m-%d %H:%M:%S">>]

\* raw != 0 and raw in (None, False)
IsUnknown(raw) ==
    /\ ~PyEqInt(raw, 0)
    /\ (raw.t = "none" \/ PyEq(raw, PyFalse))

\* battery_charge_level: a string loses its ".0" and becomes an int
BatteryRule(d, raw) ==
    IF d.key = "battery_charge_level" /\ raw.t = "str"
    THEN LET i == IntOfStr(ReplaceDotZero(raw.s))
         IN  IF i.ok THEN Continue(PyInt(i.n))
             ELSE Returned(Raise("ValueError"), raw)
    ELSE Continue(raw)

\* int(raw) > max_value: the comparison made on the truncated value
ExceedsTruncated(raw, max) == PyIntOf(raw).n > max

\* raw > max_value
Exceeds(raw, max) == Milli(raw) > max * 1000

\* the maximum plausible value rule
MaxRule(d, raw) ==
    IF d.max_value = {} THEN Continue(raw)
    ELSE LET max == CHOOSE m \in d.max_value : TRUE
             i == IntOfStr(raw.s)
             val == IF raw.t = "str" THEN PyInt(i.n) ELSE raw
         IN  IF raw.t = "str" /\ ~i.ok THEN Returned(Raise("ValueError"), raw)
             ELSE IF Exceeds(val, max) THEN Returned(PyNone, val)
             ELSE Continue(val)

\* datetime.now().replace(second=0, microsecond=0) on a clock in seconds
TruncateToMinute(clock) == clock - (clock % 60)

\* estimated_fully_charged_time with the test value >= 0: zero minutes give a
\* timestamp
FullyChargedRuleFromZero(raw, clock) ==
    LET value == PyIntOf(raw)
    IN  IF ~value.ok THEN Raise("ValueError")
        ELSE IF value.n >= 0
             THEN PyDatetime(TruncateToMinute(clock) + 60 * value.n)
             ELSE PyStr(<<"Not charging">>)

\* estimated_fully_charged_time
FullyChargedRule(raw, clock) ==
    LET value == PyIntOf(raw)
    IN  IF ~value.ok THEN Raise("ValueError")
        ELSE IF value.n > 0
             THEN PyDatetime(TruncateToMinute(clock) + 60 * value.n)
             ELSE PyStr(<<"Not charging">>)

\* round(estimate_range / battery_level * 100); the quotient is exact, which
\* the float quotient is for the levels and ranges the model draws
RangeEstimate(estimate_range, battery_level) ==
    IF battery_level > 0
    THEN RoundHalfEven(estimate_range * 100, battery_level)
    ELSE RoundHalfEven(-(estimate_range * 100), -battery_level)

\* estimate_full_charge_range and estimate_full_charge_range_miles
FullChargeRangeRule(d, data) ==
    LET battery_level ==
            get_latest_data(data, d.query, "batteryChargeLevelPercentage")
        estimate_range == get_latest_data(data, d.query, d.field_name)
        b == PyIntOf(battery_level)
        e == PyIntOf(estimate_range)
    IN  IF battery_level.t = "none" \/ estimate_range.t = "none" THEN PyNone
        ELSE IF battery_level = PyFalse \/ estimate_range = PyFalse THEN PyNone
        ELSE IF ~b.ok \/ ~e.ok THEN Raise("ValueError")
        ELSE IF b.n = 0 THEN Raise("ZeroDivisionError")
        ELSE PyInt(RangeEstimate(e.n, b.n))

\* current_odometer_meters: above 1000 the stored value itself is replaced by
\* int(value / 1000).  (The source tests the key with "in" against a string,
\* a substring test; no other key of the table is a substring of it.)
OdometerRule(d, raw) ==
    IF d.key = "current_odometer_meters"
    THEN LET i == PyIntOf(raw)
         IN  IF ~i.ok THEN Returned(Raise("ValueError"), raw)
             ELSE IF i.n > 1000
                  THEN IF raw.t = "str" THEN Returned(Raise("TypeError"), raw)
                       ELSE Continue(PyInt(Milli(raw) \div 1000000))
             ELSE Continue(raw)
    ELSE Continue(raw)

\* the rounding rule that ends the accessor
RoundRule(d, raw) ==
    IF d.round_digits # {}
    THEN LET digits == CHOOSE r \in d.round_digits : TRUE
             f == PyFloatOf(raw)
         IN  IF digits = 0 /\ IsInstanceInt(raw) THEN PyInt(raw.n)
             ELSE IF ~f.ok THEN Raise("ValueError")
             ELSE PyFloat(RoundMilli(f.m, digits))
    ELSE raw

\* PolestarSensor.state on an entity of key k holding raw: [out, val], the
\* value returned (or the exception raised) and _attr_native_value afterwards
state(k, raw, code, expiry, data, clock) ==
    LET d == entity_description(k)
        battery == BatteryRule(d, raw)
        max == MaxRule(d, battery.val)
        odometer == OdometerRule(d, max.val)
    IN  IF d.dict_data # "None"
        THEN [out |-> LabelRule(d, raw, code), val |-> raw]
        ELSE IF d.key = "api_token_expires_at"
        THEN [out |-> TokenRule(expiry), val |-> raw]
        ELSE IF IsUnknown(raw) THEN [out |-> PyNone, val |-> raw]
        ELSE IF battery.done THEN [out |-> battery.out, val |-> battery.val]
        ELSE IF max.done THEN [out |-> max.out, val |-> max.val]
        ELSE IF d.key = "estimated_fully_charged_time"
        THEN [out |-> FullyChargedRule(max.val, clock), val |-> max.val]
        ELSE IF d.key \in {"estimate_full_charge_range",
                           "estimate_full_charge_range_miles"}
        THEN [out |-> FullChargeRangeRule(d, data), val |-> max.val]
        ELSE IF odometer.done THEN [out |-> odometer.out, val |-> odometer.val]
        ELSE [out |-> RoundRule(d, odometer.val), val |-> odometer.val]

\* the digit count native_value rounds with
NativeDigits(d) ==
    IF d.round_digits # {} THEN CHOOSE r \in d.round_digits : TRUE ELSE 2

\* PolestarSensor.native_value: round(self.state, digits)
native_value(k, raw, code, expiry, data, clock) ==
    LET r == state(k, raw, code, expiry, data, clock)
    IN  [out |-> IF r.out.t = "raise" THEN r.out
                 ELSE PyRound(r.out, NativeDigits(entity_description(k))),
         val |-> r.val]

\* ------------------------------------------------------------------------
\* Bounds and the inputs the model draws

\* the clock advances at most this many times
MaxTicks == 1

\* seconds on the clock when the model starts, and seconds per advance
StartClock == 100
ClockStep == 45

\* seconds async_update pushes the client's next refresh back by
Cooldown == 60

Chars(n) ==
    CASE n = 85 -> <<"8", "5">>
      [] n = 1500 -> <<"1", "5", "0", "0">>
      [] n = 2000 -> <<"2", "0", "0", "0">>

\* vehicles: [vin, id], the device's vin and id attributes
Vehicles ==
    {[vin |-> <<"Y", "S", "M", "Y", "K", "E", "A", "E", "7", "R", "B",
               "0", "0", "1", "2", "3", "4">>,
      id |-> <<"Y", "S", "M", "Y", "K", "E", "A", "E">>],
     [vin |-> <<"L", "P", "S", "V", "S", "E", "D", "E", "E", "M", "L",
               "0", "0", "9", "8", "7", "6">>,
      id |-> <<"polestar_", "9", "8", "7", "6">>]}

\* the vehicle of the starting points that vary something else
SomeVehicle == CHOOSE v \in Vehicles : v.id[1] = "Y"

\* the keys whose field is text
TextKeys ==
    {"vin", "registration_number", "model_name", "last_updated_odometer_data",
     "last_updated_battery_data"}

\* raw values a refresh may deliver for any field
CommonRaw == {PyNone, PyFalse, PyInt(0), PyInt(50), PyFloat(1234)}

\* raw values a refresh may deliver for the field of descriptor d
RawValues(d) ==
    (IF d.key \in TextKeys THEN {PyNone, PyFalse} ELSE CommonRaw)
    \cup (IF d.max_value = {} THEN {}
          ELSE LET max == CHOOSE m \in d.max_value : TRUE
               IN  {PyInt(max), PyInt(max + 1), PyFloat(max * 1000 + 500),
                    PyStr(Chars(2000))})
    \cup (IF d.dict_data = "None" THEN {}
          ELSE {PyStr(<<"CHARGING_STATUS_CHARGING">>),
                PyStr(<<"CHARGER_CONNECTION_STATUS_FAULT">>),
                PyStr(<<"CHARGING_STATUS_V2X">>), PyInt(200)})
    \cup (IF d.key = "battery_charge_level"
          THEN {PyStr(Chars(85) \o <<".", "0">>), PyStr(Chars(85) \o <<".", "5">>),
                PyFloat(2500)}
          ELSE {})
    \cup (IF d.key = "current_odometer_meters"
          THEN {PyInt(500), PyInt(1000), PyInt(1500), PyInt(1500000),
                PyFloat(1500500), PyStr(Chars(1500)), PyFloat(2500)}
          ELSE {})
    \cup (IF d.key = "estimated_fully_charged_time"
          THEN {PyInt(30), PyInt(-5), PyStr(<<"3", "0">>)}
          ELSE {})
    \cup (IF d.key \in TextKeys THEN {PyStr(<<"Polestar 2">>)} ELSE {})
    \cup (IF d.key \in {"estimate_full_charge_range",
                        "estimate_full_charge_range_miles"}
          THEN {PyInt(200)}
          ELSE {})

\* battery levels the device may hold when the entities are set up
BatteryLevels ==
    {PyNone, PyFalse, PyInt(0), PyInt(8), PyInt(50),
     PyStr(Chars(85) \o <<".", "0">>)}

\* status codes of the device's latest call
CallCodes ==
    {PyNone, PyInt(200), PyInt(303), PyInt(401), PyInt(404), PyInt(500),
     PyInt(429)}

\* the raw cache of a vehicle that is charging
TypicalData(battery_level) ==
    [slot \in Slots |->
        CASE slot = <<"getBatteryData", "batteryChargeLevelPercentage">>
                 -> battery_level
          [] slot = <<"getBatteryData", "estimatedDistanceToEmptyKm">>
                 -> PyInt(200)
          [] slot = <<"getBatteryData", "estimatedDistanceToEmptyMiles">>
                 -> PyInt(124)
          [] slot = <<"getOdometerData", "odometerMeters">> -> PyInt(1500000)
          [] slot = <<"getBatteryData", "chargingStatus">>
                 -> PyStr(<<"CHARGING_STATUS_CHARGING">>)
          [] slot = <<"getBatteryData", "estimatedChargingTimeToFullMinutes">>
                 -> PyInt(30)
          [] OTHER -> PyNone]

\* the keys whose rule reads the device's latest battery level
RangeKeys == {"estimate_full_charge_range", "estimate_full_charge_range_miles"}

\* the starting points: the entity the host polls, the vehicle, and what the
\* device holds once its first refresh is over.  Every entity starts from a
\* charging vehicle whose latest call ended 200; the call code, the battery
\* level, the token expiry and the vehicle then vary for the entities whose
\* rules read them.
Scenario(k, v, code, expiry, battery_level) ==
    [polled |-> k, vehicle |-> v, code |-> code, expiry |-> expiry,
     data |-> TypicalData(battery_level)]

Scenarios ==
    {Scenario(k, SomeVehicle, PyInt(200), PyNone, PyInt(50)) : k \in Keys}
    \cup {Scenario("vin", v, c, PyNone, PyInt(50)) :
            v \in Vehicles, c \in {PyInt(200), PyInt(500)}}
    \cup {Scenario("api_status_code", SomeVehicle, c, PyNone, PyInt(50)) :
            c \in CallCodes}
    \cup {Scenario(k, SomeVehicle, PyInt(200), PyNone, b) :
            k \in RangeKeys, b \in BatteryLevels}
    \cup {Scenario("api_token_expires_at", SomeVehicle, PyInt(200),
                   PyDatetime(3600), PyInt(50))}

\* ------------------------------------------------------------------------
\* State

VARIABLES
    pc,                   \* "start" before async_setup_entry, "ready" after
    vehicle,              \* the device's vin and id
    latest_call_code,     \* device.get_latest_call_code()
    token_expiry,         \* device.get_token_expiry()
    data,                 \* the device's raw cache, by slot
    next_update,          \* device.polestarApi.next_update
    now,                  \* datetime.now(), in seconds
    sensors,              \* the entities handed to async_add_entities
    attr_native_value,    \* _attr_native_value of the entity of each key
    polled,               \* the key of the entity the host polls
    update,               \* the latest async_update of the polled entity
    read,                 \* the latest accessor read of the polled entity
    previous              \* the read of state right before the latest read

vars == <<pc, vehicle, latest_call_code, token_expiry, data, next_update, now,
          sensors, attr_native_value, polled, update, read, previous>>

\* no accessor call yet, or none since the last fresh value
NoRead == [op |-> "none", out |-> PyNone, before |-> PyNone, after |-> PyNone,
           at |-> 0, stale |-> FALSE]

NoPrevious == [op |-> "none", out |-> PyNone, stale |-> FALSE]

\* no async_update yet
NoUpdate == [result |-> "none", step |-> "none", before |-> PyNone,
             after |-> PyNone, at |-> 0, propagated |-> FALSE]

\* an async_update that stored a fresh value
FreshUpdate == [result |-> "ok", step |-> "none", before |-> PyNone,
                after |-> PyNone, at |-> 0, propagated |-> FALSE]

Init ==
    /\ pc = "start"
    /\ \E s \in Scenarios :
          /\ polled = s.polled
          /\ vehicle = s.vehicle
          /\ latest_call_code = s.code
          /\ token_expiry = s.expiry
          /\ data = s.data
    /\ next_update = PyNone
    /\ now = StartClock
    /\ sensors = <<>>
    /\ attr_native_value = [k \in Keys |-> PyNone]
    /\ update = NoUpdate
    /\ read = NoRead
    /\ previous = NoPrevious

\* ------------------------------------------------------------------------
\* Operations

\* vin[-4:]
Last4(vin) == SubSeq(vin, IF Len(vin) > 4 THEN Len(vin) - 3 ELSE 1, Len(vin))

\* PolestarSensor.__init__: the entity of a descriptor
PolestarSensor(description) == [key |-> description.key]

\* _attr_unique_id, which __init__ sets and the unique_id property shadows
attr_unique_id(sensor) ==
    <<"polestar_">> \o Last4(vehicle.vin) \o <<"-", sensor.key>>

\* PolestarSensor.unique_id, the property the host reads
unique_id(sensor) == vehicle.id \o <<"-", sensor.key>>

\* _async_update_attrs, which __init__ runs when the latest call ended 200
InitialValue(description) ==
    IF PyEqInt(latest_call_code, 200)
    THEN get_value(data, description.query, description.field_name)
    ELSE PyNone

\* async_setup_entry: one entity per descriptor of POLESTAR_SENSOR_TYPES.
\* The device's first refresh has filled the cache the starting point holds.
async_setup_entry ==
    /\ pc = "start"
    /\ pc' = "ready"
    /\ sensors' = [i \in DOMAIN POLESTAR_SENSOR_TYPES |->
                      PolestarSensor(POLESTAR_SENSOR_TYPES[i])]
    /\ attr_native_value' = [k \in Keys |-> InitialValue(entity_description(k))]
    /\ UNCHANGED <<vehicle, latest_call_code, token_expiry, data, next_update,
                   now, polled, update, read, previous>>

\* PolestarSensor.async_update, (device refresh and get_value both return):
\* the refresh brings raw value v for the entity's field
async_update(k, v) ==
    LET d == entity_description(k)
        refreshed == [data EXCEPT ![Slot(d)] = v]
        value == get_value(refreshed, d.query, d.field_name)
    IN  /\ pc = "ready"
        /\ k = polled
        /\ data' = refreshed
        /\ attr_native_value' = [attr_native_value EXCEPT ![k] = value]
        /\ update' = FreshUpdate
        /\ read' = NoRead
        /\ previous' = NoPrevious
        /\ UNCHANGED <<pc, vehicle, latest_call_code, token_expiry,
                       next_update, now, sensors, polled>>

\* the steps of async_update that may raise
FailingSteps == {"device.async_update", "get_value"}

\* PolestarSensor.async_update when the named step raises: the handler logs
\* and pushes the client's next refresh back.  The call that raised leaves
\* the device's cache as it found it.
async_update_fails(k, step) ==
    /\ pc = "ready"
    /\ k = polled
    /\ next_update' = PyDatetime(now + Cooldown)
    /\ update' = [result |-> "failed", step |-> step,
                  before |-> attr_native_value[k],
                  after |-> attr_native_value[k],
                  at |-> now, propagated |-> FALSE]
    /\ UNCHANGED <<pc, vehicle, latest_call_code, token_expiry, data, now,
                   sensors, attr_native_value, polled, read, previous>>

\* the record of an accessor call that found raw stored and ended with r
ReadOf(op, raw, r) ==
    [op |-> op, out |-> r.out, before |-> raw, after |-> r.val, at |-> now,
     stale |-> update.result = "failed"]

\* the host reads PolestarSensor.state
read_state(k) ==
    LET raw == attr_native_value[k]
        r == state(k, raw, latest_call_code, token_expiry, data, now)
    IN  /\ pc = "ready"
        /\ k = polled
        /\ attr_native_value' = [attr_native_value EXCEPT ![k] = r.val]
        /\ read' = ReadOf("state", raw, r)
        /\ previous' = IF read.op = "state"
                       THEN [op |-> "state", out |-> read.out,
                             stale |-> read.stale]
                       ELSE NoPrevious
        /\ UNCHANGED <<pc, vehicle, latest_call_code, token_expiry, data,
                       next_update, now, sensors, polled, update>>

\* the host reads PolestarSensor.native_value
read_native_value(k) ==
    LET raw == attr_native_value[k]
        r == native_value(k, raw, latest_call_code, token_expiry, data, now)
    IN  /\ pc = "ready"
        /\ k = polled
        /\ attr_native_value' = [attr_native_value EXCEPT ![k] = r.val]
        /\ read' = ReadOf("native_value", raw, r)
        /\ previous' = NoPrevious
        /\ UNCHANGED <<pc, vehicle, latest_call_code, token_expiry, data,
                       next_update, now, sensors, polled, update>>

\* time passes
Tick ==
    /\ now < StartClock + MaxTicks * ClockStep
    /\ now' = now + ClockStep
    /\ UNCHANGED <<pc, vehicle, latest_call_code, token_expiry, data,
                   next_update, sensors, attr_native_value, polled, update,
                   read, previous>>

AsyncUpdate == \E k \in Keys : \E v \in RawValues(entity_description(k)) : async_update(k, v)

AsyncUpdateFails == \E k \in Keys : \E step \in FailingSteps : async_update_fails(k, step)

ReadState == \E k \in Keys : read_state(k)

ReadNativeValue == \E k \in Keys : read_native_value(k)

Next ==
    \/ async_setup_entry
    \/ AsyncUpdate
    \/ AsyncUpdateFails
    \/ ReadState
    \/ ReadNativeValue
    \/ Tick

Spec == Init /\ [][Next]_vars

\* ------------------------------------------------------------------------
\* Properties

\* the descriptor of the polled entity
PolledDescription == entity_description(polled)

\* the polled entity's descriptor declares no label dictionary
NoDictionary == PolledDescription.dict_data = "None"

\* the maximum plausible value the polled entity's descriptor declares
PolledMax == CHOOSE m \in PolledDescription.max_value : TRUE

\* the latest read was of state, and so was the one before it, with no
\* async_update of any kind between the two
ReadTwice ==
    /\ read.op = "state"
    /\ previous.op = "state"
    /\ read.stale = previous.stale

\* C1: reading state leaves the stored raw value as it was, and two reads with
\* no update between them return the same display value (the timestamp of
\* estimated_fully_charged_time excepted)
C1_StateHasNoSideEffects ==
    /\ read.op = "state" => read.after = read.before
    /\ (ReadTwice /\ polled # "estimated_fully_charged_time")
          => read.out = previous.out

\* C2: a failed async_update does not propagate its exception, sets the
\* client's next_update to the time of the call plus 60 seconds and leaves the
\* stored value as it was, and the display value read after it is the one read
\* before it (the timestamp of estimated_fully_charged_time excepted)
C2_FailedUpdateKeepsDisplay ==
    /\ update.result = "failed" =>
          /\ ~update.propagated
          /\ next_update = PyDatetime(update.at + 60)
          /\ update.after = update.before
    /\ (/\ read.op = "state" /\ read.stale
        /\ previous.op = "state" /\ ~previous.stale
        /\ polled # "estimated_fully_charged_time")
          => read.out = previous.out

\* C3: with a declared maximum M and no label dictionary, a stored raw number
\* above M makes state return null
C3_AboveMaxIsNull ==
    (/\ read.op = "state"
     /\ NoDictionary
     /\ PolledDescription.max_value # {}
     /\ IsNumber(read.before)
     /\ Milli(read.before) > PolledMax * 1000)
        => read.out = PyNone

\* C3 happens: a full-charge-range entity held a raw number above its maximum
\* while the device held a battery level and a range to derive from
C3_Witness ==
    /\ read.op = "state"
    /\ polled = "estimate_full_charge_range"
    /\ read.before = PyFloat(660500)
    /\ data[<<"getBatteryData", "batteryChargeLevelPercentage">>] = PyInt(50)
    /\ read.out = PyNone

\* C4: without a label dictionary and other than the token expiry key, state
\* returns null for a stored None or False, and a stored zero is not null for
\* being zero
C4_NoneAndFalseAreNull ==
    (/\ read.op = "state"
     /\ NoDictionary
     /\ polled # "api_token_expires_at")
        => /\ read.before \in {PyNone, PyFalse} => read.out = PyNone
           /\ (read.before = PyInt(0) /\ polled \notin RangeKeys)
                 => read.out # PyNone

\* the label C5 names for a status code
C5_StatusLabel(code) ==
    CASE code = PyInt(200) -> "OK"
      [] code = PyInt(303) -> "OK"
      [] code = PyInt(401) -> "Unauthorized"
      [] code = PyInt(404) -> "API Down"
      [] code = PyInt(500) -> "Internal Server Error"
      [] OTHER -> "Error"

\* C5: with a label dictionary, api_status_code shows the label of the latest
\* call code ("Error" when it has none) whatever the stored value is, and any
\* other key shows the label of the stored value, or the stored value itself
\* when the dictionary has no such key
C5_LabelRuleWins ==
    (read.op = "state" /\ ~NoDictionary)
        => IF polled = "api_status_code"
           THEN read.out = PyStr(<<C5_StatusLabel(latest_call_code)>>)
           ELSE LET items == {item \in DictData(PolledDescription.dict_data) :
                                 item[1] = read.before}
                IN  IF items = {} THEN read.out = read.before
                    ELSE \E item \in items : read.out = PyStr(<<item[2]>>)

\* C5 happens: api_status_code was read while it held a raw value and the
\* latest call code had no label
C5_Witness ==
    /\ read.op = "state"
    /\ polled = "api_status_code"
    /\ read.before = PyInt(200)
    /\ latest_call_code = PyInt(429)
    /\ read.out = PyStr(<<"Error">>)

\* C6: the odometer shows an integer above 1000 divided by 1000 and
\* truncated, an integer of 1000 or less unchanged, and the same value on
\* every read of one fetched value
C6_OdometerDisplay ==
    (polled = "current_odometer_meters" /\ read.op = "state")
        => /\ (read.before.t = "int" /\ read.before.n > 1000)
                 => read.out = PyInt(read.before.n \div 1000)
           /\ (read.before.t = "int" /\ read.before.n <= 1000)
                 => read.out = read.before
           /\ ReadTwice => read.out = previous.out

\* the device's latest battery level and estimated range for the polled key
LatestBattery == data[<<"getBatteryData", "batteryChargeLevelPercentage">>]

LatestRange == data[Slot(PolledDescription)]

\* the full-charge-range rule is the one that decides the read: the stored
\* value is known and not above the maximum
RangeRuleDecides ==
    /\ read.op = "state"
    /\ polled \in RangeKeys
    /\ IsNumber(read.before)
    /\ read.before # PyFalse
    /\ Milli(read.before) <= PolledMax * 1000

\* C7: the full-charge-range keys return null when the latest battery level or
\* range is None or False, and round(range / level * 100) without an error
\* for every other pair of numbers
C7_FullChargeRange ==
    RangeRuleDecides
        => IF \/ LatestBattery \in {PyNone, PyFalse}
              \/ LatestRange \in {PyNone, PyFalse}
           THEN read.out = PyNone
           ELSE (IsNumber(LatestBattery) /\ IsNumber(LatestRange))
                   => read.out.t = "int"

\* no rule before the rounding rule decides the read: the stored value is a
\* known number within the maximum and the key has no rule of its own
RoundRuleDecides ==
    /\ NoDictionary
    /\ polled \notin RangeKeys
                 \cup {"api_token_expires_at", "estimated_fully_charged_time",
                       "current_odometer_meters"}
    /\ read.before.t \in {"int", "float"}
    /\ PolledDescription.max_value # {} => Milli(read.before) <= PolledMax * 1000

\* the display value C8's rounding gives a number
C8_Rounded(v, round_digits) ==
    IF v.t = "int" THEN v
    ELSE IF round_digits = {0} THEN PyFloat(RoundHalfEven(v.n, 1000) * 1000)
    ELSE PyFloat(RoundHalfEven(v.n, 10) * 10)

\* C8: when the rounding rule decides, state and native_value both return the
\* stored number rounded to the declared digit count, to 2 digits when none
\* is declared
C8_RoundingRule ==
    (read.op \in {"state", "native_value"} /\ RoundRuleDecides)
        => PyEq(read.out, C8_Rounded(read.before, PolledDescription.round_digits))

\* C9: setup makes one entity per descriptor, keys are pairwise distinct, and
\* the unique id of each is "polestar_" + vin[-4:] + "-" + key
C9_UniqueIds ==
    pc = "ready"
        => /\ Len(sensors) = Len(POLESTAR_SENSOR_TYPES)
           /\ \A i \in DOMAIN sensors :
                 /\ sensors[i].key = POLESTAR_SENSOR_TYPES[i].key
                 /\ unique_id(sensors[i])
                       = <<"polestar_">>
                         \o SubSeq(vehicle.vin, Len(vehicle.vin) - 3,
                                   Len(vehicle.vin))
                         \o <<"-", POLESTAR_SENSOR_TYPES[i].key>>
           /\ \A i, j \in DOMAIN sensors :
                 i # j => /\ sensors[i].key # sensors[j].key
                          /\ unique_id(sensors[i]) # unique_id(sensors[j])

C11_DisplayWithinMax ==
    (/\ read.op = "state"
     /\ NoDictionary
     /\ PolledDescription.max_value # {}
     /\ read.out.t \in {"int", "float"}
     /\ polled \in RangeKeys
           => /\ LatestBattery.t = "int"
              /\ LatestBattery.n \in 1..100
              /\ IsNumber(LatestRange)
              /\ Milli(LatestRange) <= PolledMax * 1000)
        => Milli(read.out) <= PolledMax * 1000

====
